---- MODULE Spec2Model ----
(***************************************************************************)
(* Model of tools/generate_source.py: generate_file(lang, groups,          *)
(* filename) reads the constants definition pcd.yaml, validates it and the *)
(* requested groups, and writes a C++ header or a Fortran module.          *)
(*                                                                         *)
(* The text of a file is a sequence of tokens; NL is the newline           *)
(* character.  Each ofile.write(...) of the source appends the tokens of   *)
(* its string.  Reading a file back (SplitLines, ParseSections) works on   *)
(* that text only.                                                         *)
(***************************************************************************)
EXTENDS Integers, Sequences, FiniteSets, TLC

VARIABLES db, file, lang, groups, pc, fd, ofile, groups_in_file,
          valid_groups, si, gi, ci, err, errMsg,
          fileBefore, ofileOpened, prev, ncalls

vars == <<db, file, lang, groups, pc, fd, ofile, groups_in_file,
          valid_groups, si, gi, ci, err, errMsg,
          fileBefore, ofileOpened, prev, ncalls>>

(* ------------------------------ bounds --------------------------------- *)
MaxSet == 2
MaxFilter == 2
MaxCalls == 2

(* ------------------------------ inputs --------------------------------- *)
NL == "\n"

KnownLangs == {"cxx", "f90"}
Langs == KnownLangs \cup {"py"}

VMath == [hasEntries |-> TRUE,
          entries |-> << [symbol |-> "PI", value |-> "3.14159265358979323846"],
                         [symbol |-> "E", value |-> "2.718281828459045"] >>]
VMathAlt == [hasEntries |-> TRUE,
             entries |-> << [symbol |-> "TWOPI", value |-> "6.283185307179586"] >>]
VGeo == [hasEntries |-> TRUE,
         entries |-> << [symbol |-> "GRAVITY", value |-> "9.80616"] >>]
VNoEntries == [hasEntries |-> FALSE, entries |-> << >>]

\* An element of the 'set' sequence is a mapping: its items in order.
SetElements ==
    { << >>,
      << [k |-> "mathematics", v |-> VMath] >>,
      << [k |-> "mathematics", v |-> VMathAlt] >>,
      << [k |-> "geophysics", v |-> VGeo] >>,
      << [k |-> "geophysics", v |-> VNoEntries] >>,
      << [k |-> "mathematics", v |-> VMath], [k |-> "geophysics", v |-> VGeo] >> }

SeqsUpTo(S, n) == UNION { [1..m -> S] : m \in 0..n }

\* pcd.yaml: with or without the top-level key 'physical_constants_dictionary'.
Databases ==
    { [hasTop |-> FALSE, set |-> << >>] }
    \cup { [hasTop |-> TRUE, set |-> s] : s \in SeqsUpTo(SetElements, MaxSet) }

FilterNames == {"mathematics", "geophysics", "oceanography"}

\* The 'groups' argument: None, or a list of names.
GroupArgs ==
    { [given |-> FALSE, names |-> << >>] }
    \cup { [given |-> TRUE, names |-> s] : s \in SeqsUpTo(FilterNames, MaxFilter) }

\* What the output path holds before the first call.
PriorFiles ==
    { [exists |-> FALSE, content |-> << >>],
      [exists |-> TRUE, content |-> << "old text", NL >>],
      [exists |-> TRUE,
       content |-> << "// ", "oceanography", " constants", NL,
                      "constexpr double ", "RHO", " = ", "1026.0", ";", NL >>] }

(* ------------------------- helpers of the code ------------------------- *)
InSeq(x, s) == \E i \in 1..Len(s) : s[i] = x

\* Variant: a new key is put in front instead of at the end.
DictSetFront(d, k, v) ==
    IF \E i \in 1..Len(d) : d[i].k = k
    THEN [i \in 1..Len(d) |-> IF d[i].k = k THEN [k |-> k, v |-> v] ELSE d[i]]
    ELSE << [k |-> k, v |-> v] >> \o d

\* groups_in_file[k] = v on an insertion-ordered dict
DictSet(d, k, v) ==
    IF \E i \in 1..Len(d) : d[i].k = k
    THEN [i \in 1..Len(d) |-> IF d[i].k = k THEN [k |-> k, v |-> v] ELSE d[i]]
    ELSE Append(d, [k |-> k, v |-> v])

\* for k, v in g.items(): groups_in_file[k] = v
RECURSIVE DictUpdate(_, _, _)
DictUpdate(d, g, i) ==
    IF i > Len(g) THEN d ELSE DictUpdate(DictSet(d, g[i].k, g[i].v), g, i + 1)

\* list(groups_in_file.keys())
Keys(d) == [i \in 1..Len(d) |-> d[i].k]

\* len(g.keys()) > 1
TooManyKeys(g) == Len(g) > 1

\* Variant: all(...) in place of any(...).
AllInvalid(names, valid) == \A i \in 1..Len(names) : ~InSeq(names[i], valid)

\* any(item not in valid_groups for item in groups)
AnyInvalid(names, valid) == \E i \in 1..Len(names) : ~InSeq(names[i], valid)

\* Variant: the group is tested against valid_groups instead of groups.
SelectedIfValid(grps, gname) == ~grps.given \/ InSeq(gname, valid_groups)

\* groups is None or gname in groups
Selected(grps, gname) == ~grps.given \/ InSeq(gname, grps.names)

HeaderText(l) ==
    IF l = "cxx"
    THEN << "#ifndef E3SM_CONSTANTS_HPP", NL,
            "#define E3SM_CONSTANTS_HPP", NL, NL,
            "namespace e3sm {", NL >>
    ELSE << "module e3sm_constants", NL,
            "    implicit none", NL, NL,
            "    !define double precision kind", NL,
            "    integer, parameter :: dp = selected_real_kind(15, 307)  ! Double precision", NL >>

SectionText(l, gname) ==
    IF l = "cxx"
    THEN << NL, "// ", gname, " constants", NL >>
    ELSE << NL, "    !", gname, " constants", NL >>

\* Variant: the declaration is written without its newline.
EntryTextNoNewline(l, n, v) ==
    IF l = "cxx"
    THEN << "constexpr double ", n, " = ", v, ";" >>
    ELSE << "    real(dp), parameter :: ", n, " = ", v, "_dp" >>

EntryText(l, n, v) ==
    IF l = "cxx"
    THEN << "constexpr double ", n, " = ", v, ";", NL >>
    ELSE << "    real(dp), parameter :: ", n, " = ", v, "_dp", NL >>

FooterText(l) ==
    IF l = "cxx"
    THEN << NL, "} // namespace e3sm ", NL, "#endif // E3SM_CONSTANTS_HPP" >>
    ELSE << NL, "end module e3sm_constants" >>

\* Variant: open(filename, 'a') keeps what the file holds.
OpenedContentAppend(f) == f.content

\* open(filename, 'w'): the content the file has once opened
OpenedContent(f) == << >>

NoMsg == [named |-> << >>, valid |-> << >>]

(* ------------------------------- Init ---------------------------------- *)
Init ==
    /\ db \in Databases
    /\ file \in PriorFiles
    /\ lang = "cxx"
    /\ groups = [given |-> FALSE, names |-> << >>]
    /\ pc = "idle"
    /\ fd = FALSE
    /\ ofile = FALSE
    /\ groups_in_file = << >>
    /\ valid_groups = << >>
    /\ si = 1
    /\ gi = 1
    /\ ci = 1
    /\ err = "none"
    /\ errMsg = NoMsg
    /\ fileBefore = file
    /\ ofileOpened = FALSE
    /\ prev = [valid |-> FALSE, content |-> << >>]
    /\ ncalls = 0

(* ------------------------------ actions -------------------------------- *)
\* Entry into generate_file with fresh locals.
Enter ==
    /\ pc' = "open_db"
    /\ groups_in_file' = << >>
    /\ valid_groups' = << >>
    /\ si' = 1
    /\ gi' = 1
    /\ ci' = 1
    /\ err' = "none"
    /\ errMsg' = NoMsg
    /\ fileBefore' = file
    /\ ofileOpened' = FALSE
    /\ ncalls' = ncalls + 1
    /\ UNCHANGED <<db, file, fd, ofile>>

\* Variant: the output is opened without a with block, so an exception
\* leaves it open.
RaiseNoClose(e) ==
    /\ err' = e
    /\ ofile' = ofile
    /\ pc' = "done"

\* An exception raised inside 'with open(filename, 'w') as ofile': the block
\* closes ofile and the exception ends generate_file.
RaiseInWith(e) ==
    /\ err' = e
    /\ ofile' = FALSE
    /\ pc' = "done"

\* _main_func: generate_file(lang, groups, filename) with the parsed arguments.
Call ==
    /\ pc = "idle"
    /\ lang' \in Langs
    /\ groups' \in GroupArgs
    /\ prev' = prev
    /\ Enter

\* The same command is run again (same lang, groups, filename).
Rerun ==
    /\ pc = "done"
    /\ ncalls < MaxCalls
    /\ prev' = IF err = "none" THEN [valid |-> TRUE, content |-> file.content]
               ELSE prev
    /\ UNCHANGED <<lang, groups>>
    /\ Enter

\* with open(constants_file, 'r') as fd:
OpenDb ==
    /\ pc = "open_db"
    /\ fd' = TRUE
    /\ pc' = "read_db"
    /\ UNCHANGED <<db, file, lang, groups, ofile, groups_in_file, valid_groups,
                   si, gi, ci, err, errMsg, fileBefore, ofileOpened, prev, ncalls>>

\* constants_dict = yaml.safe_load(fd)['physical_constants_dictionary'];
\* leaving the with block closes fd, also when the lookup raises.
ReadDb ==
    /\ pc = "read_db"
    /\ fd' = FALSE
    /\ IF db.hasTop
       THEN /\ pc' = "scan"
            /\ err' = err
       ELSE /\ pc' = "done"
            /\ err' = "KeyError"
    /\ UNCHANGED <<db, file, lang, groups, ofile, groups_in_file, valid_groups,
                   si, gi, ci, errMsg, fileBefore, ofileOpened, prev, ncalls>>

\* One iteration of: for g in constants_dict['set']
ScanElement ==
    /\ pc = "scan"
    /\ si <= Len(db.set)
    /\ IF TooManyKeys(db.set[si])
       THEN /\ err' = "MalformedDatabase"
            /\ pc' = "done"
            /\ UNCHANGED <<groups_in_file, si>>
       ELSE /\ groups_in_file' = DictUpdate(groups_in_file, db.set[si], 1)
            /\ si' = si + 1
            /\ UNCHANGED <<err, pc>>
    /\ UNCHANGED <<db, file, lang, groups, fd, ofile, valid_groups,
                   gi, ci, errMsg, fileBefore, ofileOpened, prev, ncalls>>

\* Variant: the output file is opened (truncated) before the requested
\* groups are checked.
ValidateAfterOpen ==
    /\ pc = "scan"
    /\ si > Len(db.set)
    /\ valid_groups' = Keys(groups_in_file)
    /\ IF groups.given /\ AnyInvalid(groups.names, Keys(groups_in_file))
       THEN /\ err' = "InvalidGroupSelection"
            /\ errMsg' = [named |-> groups.names, valid |-> Keys(groups_in_file)]
            /\ file' = [exists |-> TRUE, content |-> << >>]
            /\ pc' = "done"
       ELSE /\ pc' = "open_out"
            /\ UNCHANGED <<err, errMsg, file>>
    /\ UNCHANGED <<db, lang, groups, fd, ofile, groups_in_file,
                   si, gi, ci, fileBefore, ofileOpened, prev, ncalls>>

\* valid_groups and the check of the requested groups.
Validate ==
    /\ pc = "scan"
    /\ si > Len(db.set)
    /\ valid_groups' = Keys(groups_in_file)
    /\ IF groups.given /\ AnyInvalid(groups.names, Keys(groups_in_file))
       THEN /\ err' = "InvalidGroupSelection"
            /\ errMsg' = [named |-> groups.names, valid |-> Keys(groups_in_file)]
            /\ pc' = "done"
       ELSE /\ pc' = "open_out"
            /\ UNCHANGED <<err, errMsg>>
    /\ UNCHANGED <<db, file, lang, groups, fd, ofile, groups_in_file,
                   si, gi, ci, fileBefore, ofileOpened, prev, ncalls>>

\* Variant: the language is checked before the output file is opened.
OpenOutChecked ==
    /\ pc = "open_out"
    /\ IF lang \in KnownLangs
       THEN /\ ofile' = TRUE
            /\ ofileOpened' = TRUE
            /\ file' = [exists |-> TRUE, content |-> OpenedContent(file)]
            /\ pc' = "header"
            /\ UNCHANGED err
       ELSE /\ err' = "ConfigurationError"
            /\ pc' = "done"
            /\ UNCHANGED <<ofile, ofileOpened, file>>
    /\ UNCHANGED <<db, lang, groups, fd, groups_in_file, valid_groups,
                   si, gi, ci, errMsg, fileBefore, prev, ncalls>>

\* with open(filename, 'w') as ofile: creates or truncates the file.
OpenOut ==
    /\ pc = "open_out"
    /\ ofile' = TRUE
    /\ ofileOpened' = TRUE
    /\ file' = [exists |-> TRUE, content |-> OpenedContent(file)]
    /\ pc' = "header"
    /\ UNCHANGED <<db, lang, groups, fd, groups_in_file, valid_groups,
                   si, gi, ci, err, errMsg, fileBefore, prev, ncalls>>

\* Variant: the header has no else branch; any other language gets the
\* Fortran header.
WriteHeaderDefault ==
    /\ pc = "header"
    /\ file' = [file EXCEPT !.content = @ \o HeaderText(lang)]
    /\ pc' = "group"
    /\ gi' = 1
    /\ UNCHANGED <<db, lang, groups, fd, ofile, groups_in_file, valid_groups,
                   si, ci, err, errMsg, fileBefore, ofileOpened, prev, ncalls>>

\* # Header
WriteHeader ==
    /\ pc = "header"
    /\ IF lang \in KnownLangs
       THEN /\ file' = [file EXCEPT !.content = @ \o HeaderText(lang)]
            /\ pc' = "group"
            /\ gi' = 1
            /\ UNCHANGED <<err, ofile>>
       ELSE /\ RaiseInWith("ConfigurationError")
            /\ UNCHANGED <<file, gi>>
    /\ UNCHANGED <<db, lang, groups, fd, groups_in_file, valid_groups,
                   si, ci, errMsg, fileBefore, ofileOpened, prev, ncalls>>

\* for gname, group in groups_in_file.items(): a group that is not selected
SkipGroup ==
    /\ pc = "group"
    /\ gi <= Len(groups_in_file)
    /\ ~Selected(groups, groups_in_file[gi].k)
    /\ gi' = gi + 1
    /\ UNCHANGED <<db, file, lang, groups, pc, fd, ofile, groups_in_file,
                   valid_groups, si, ci, err, errMsg, fileBefore, ofileOpened,
                   prev, ncalls>>

\* ... a selected group: its section name
WriteSection ==
    /\ pc = "group"
    /\ gi <= Len(groups_in_file)
    /\ Selected(groups, groups_in_file[gi].k)
    /\ IF lang \in KnownLangs
       THEN /\ file' = [file EXCEPT
                          !.content = @ \o SectionText(lang, groups_in_file[gi].k)]
            /\ pc' = "entry"
            /\ ci' = 1
            /\ UNCHANGED <<err, ofile>>
       ELSE /\ RaiseInWith("ConfigurationError")
            /\ UNCHANGED <<file, ci>>
    /\ UNCHANGED <<db, lang, groups, fd, groups_in_file, valid_groups,
                   si, gi, errMsg, fileBefore, ofileOpened, prev, ncalls>>

\* One iteration of: for c in group['entries']
WriteEntry ==
    /\ pc = "entry"
    /\ LET group == groups_in_file[gi].v IN
       IF ~group.hasEntries
       THEN /\ RaiseInWith("KeyError")
            /\ UNCHANGED <<file, ci, gi>>
       ELSE IF ci <= Len(group.entries)
       THEN IF lang \in KnownLangs
            THEN /\ file' = [file EXCEPT
                               !.content = @ \o EntryText(lang,
                                                          group.entries[ci].symbol,
                                                          group.entries[ci].value)]
                 /\ ci' = ci + 1
                 /\ UNCHANGED <<err, ofile, pc, gi>>
            ELSE /\ RaiseInWith("ConfigurationError")
                 /\ UNCHANGED <<file, ci, gi>>
       ELSE /\ pc' = "group"
            /\ gi' = gi + 1
            /\ UNCHANGED <<file, ci, err, ofile>>
    /\ UNCHANGED <<db, lang, groups, fd, groups_in_file, valid_groups,
                   si, errMsg, fileBefore, ofileOpened, prev, ncalls>>

\* # Footer, then the with block closes ofile
WriteFooter ==
    /\ pc = "group"
    /\ gi > Len(groups_in_file)
    /\ IF lang \in KnownLangs
       THEN /\ file' = [file EXCEPT !.content = @ \o FooterText(lang)]
            /\ ofile' = FALSE
            /\ pc' = "done"
            /\ UNCHANGED err
       ELSE /\ RaiseInWith("ConfigurationError")
            /\ UNCHANGED file
    /\ UNCHANGED <<db, lang, groups, fd, groups_in_file, valid_groups,
                   si, gi, ci, errMsg, fileBefore, ofileOpened, prev, ncalls>>

(* ------------------ reading a generated file back ---------------------- *)
\* The lines of a text: the token runs between newlines.
RECURSIVE SplitFrom(_, _, _, _)
SplitFrom(s, i, cur, acc) ==
    IF i > Len(s) THEN Append(acc, cur)
    ELSE IF s[i] = NL THEN SplitFrom(s, i + 1, << >>, Append(acc, cur))
    ELSE SplitFrom(s, i + 1, Append(cur, s[i]), acc)

SplitLines(s) == SplitFrom(s, 1, << >>, << >>)

\* '// <name> constants' or '    !<name> constants'
IsHeaderLine(line, l) ==
    /\ Len(line) = 3
    /\ line[1] = (IF l = "cxx" THEN "// " ELSE "    !")
    /\ line[3] = " constants"

\* 'constexpr double <n> = <v>;' or '    real(dp), parameter :: <n> = <v>_dp'
IsDeclLine(line, l) ==
    /\ Len(line) = 5
    /\ line[1] = (IF l = "cxx" THEN "constexpr double "
                  ELSE "    real(dp), parameter :: ")
    /\ line[3] = " = "
    /\ line[5] = (IF l = "cxx" THEN ";" ELSE "_dp")

\* The group names of the header lines of a text, in order.
HeaderNames(text, l) ==
    LET lines == SplitLines(text)
        hdrs == SelectSeq(lines, LAMBDA x : IsHeaderLine(x, l))
    IN [i \in 1..Len(hdrs) |-> hdrs[i][2]]

\* The sections of a text: each header line with the declaration lines that
\* follow it without interruption.
RECURSIVE ParseFrom(_, _, _, _, _)
ParseFrom(lines, i, l, acc, open) ==
    IF i > Len(lines) THEN acc
    ELSE IF IsHeaderLine(lines[i], l)
    THEN ParseFrom(lines, i + 1, l,
                   Append(acc, [name |-> lines[i][2], decls |-> << >>]), TRUE)
    ELSE IF IsDeclLine(lines[i], l) /\ open
    THEN ParseFrom(lines, i + 1, l,
                   [acc EXCEPT ![Len(acc)].decls =
                        Append(@, [symbol |-> lines[i][2], value |-> lines[i][4]])],
                   TRUE)
    ELSE ParseFrom(lines, i + 1, l, acc, FALSE)

ParseSections(text, l) == ParseFrom(SplitLines(text), 1, l, << >>, FALSE)

CountDeclLines(text, l) ==
    Len(SelectSeq(SplitLines(text), LAMBDA x : IsDeclLine(x, l)))

RECURSIVE SumDecls(_, _)
SumDecls(secs, i) ==
    IF i > Len(secs) THEN 0 ELSE Len(secs[i].decls) + SumDecls(secs, i + 1)

(* ------------------- the definition, as the spec reads it -------------- *)
\* Every element of 'set' is a single-key mapping.
SingleKeyed(d) == \A i \in 1..Len(d.set) : Len(d.set[i]) = 1

\* The definition passes the load: top-level key present, no element with
\* more than one key.
Loads(d) == d.hasTop /\ \A i \in 1..Len(d.set) : Len(d.set[i]) <= 1

\* The groups of a single-keyed definition, in the order of 'set'.
DefGroups(d) == [i \in 1..Len(d.set) |-> d.set[i][1]]

UniqueNames(d) ==
    \A i, j \in 1..Len(d.set) : i # j => d.set[i][1].k # d.set[j][1].k

ValidDefinition(d) == d.hasTop /\ SingleKeyed(d) /\ UniqueNames(d)

\* Every key of every element of 'set'.
GroupNameSet(d) ==
    UNION { { d.set[i][j].k : j \in 1..Len(d.set[i]) } : i \in 1..Len(d.set) }

Succeeded == pc = "done" /\ err = "none"

Next ==
    \/ Call
    \/ Rerun
    \/ OpenDb
    \/ ReadDb
    \/ ScanElement
    \/ Validate
    \/ OpenOut
    \/ WriteHeader
    \/ SkipGroup
    \/ WriteSection
    \/ WriteEntry
    \/ WriteFooter

Spec == Init /\ [][Next]_vars


(* ------------------------------ properties ----------------------------- *)
FilterValid == ~groups.given \/ \A i \in 1..Len(groups.names) :
                                   groups.names[i] \in GroupNameSet(db)

InvalidNames == SelectSeq(groups.names, LAMBDA n : n \notin GroupNameSet(db))

InFilter(name) == ~groups.given \/ \E i \in 1..Len(groups.names) :
                                      groups.names[i] = name

AsSections(gs) == [i \in 1..Len(gs) |-> [name |-> gs[i].k, decls |-> gs[i].v.entries]]

NoDuplicates(s) == \A i, j \in 1..Len(s) : i # j => s[i] # s[j]

\* C1: whenever an element of 'set' does not have exactly one key (two or
\* more keys, or none), the call ends with the MalformedDatabase error.
C1_NotOneKeyIsMalformed ==
    (pc = "done" /\ db.hasTop /\ ~SingleKeyed(db)) => err = "MalformedDatabase"

\* C2 as stated: with a loaded definition, the call fails with
\* InvalidGroupSelection exactly when some requested name is not a group
\* name, and the error then names only the requested names that are absent
\* and lists all valid group names.
C2_ErrorNamesOnlyInvalid ==
    (pc = "done" /\ Loads(db)) =>
        /\ (err = "InvalidGroupSelection") <=> (groups.given /\ ~FilterValid)
        /\ err = "InvalidGroupSelection" =>
              /\ errMsg.named = InvalidNames
              /\ { errMsg.valid[i] : i \in 1..Len(errMsg.valid) } = GroupNameSet(db)

\* C2 amended: with a loaded definition, the call fails with
\* InvalidGroupSelection exactly when some requested name is not a group
\* name, and the error then names the whole requested list, in the order
\* given, and lists every valid group name once.
C2_ErrorNamesRequested ==
    (pc = "done" /\ Loads(db)) =>
        /\ (err = "InvalidGroupSelection") <=> (groups.given /\ ~FilterValid)
        /\ err = "InvalidGroupSelection" =>
              /\ errMsg.named = groups.names
              /\ { errMsg.valid[i] : i \in 1..Len(errMsg.valid) } = GroupNameSet(db)
              /\ NoDuplicates(errMsg.valid)

C2_Witness ==
    /\ pc = "done"
    /\ err = "InvalidGroupSelection"
    /\ groups.names = << "mathematics", "oceanography" >>
    /\ Len(valid_groups) = 2

\* C3: when the call fails with MalformedDatabase or InvalidGroupSelection,
\* the output file was never opened and is exactly as it was before the call.
C3_FailsBeforeOutput ==
    err \in {"MalformedDatabase", "InvalidGroupSelection"} =>
        /\ ~ofileOpened
        /\ ~ofile
        /\ file = fileBefore

C3_Witness ==
    /\ pc = "done"
    /\ err = "MalformedDatabase"
    /\ file.exists
    /\ file.content # << >>

\* C4: for a valid definition and no group filter, the group names read back
\* from the header lines of the output are the group names of the definition
\* in the definition's order.
C4_HeadersRoundTrip ==
    (Succeeded /\ ValidDefinition(db) /\ ~groups.given /\ lang \in KnownLangs) =>
        HeaderNames(file.content, lang) = Keys(DefGroups(db))

C4_Witness ==
    /\ Succeeded
    /\ ValidDefinition(db)
    /\ ~groups.given
    /\ lang = "f90"
    /\ Len(db.set) >= 2
    /\ db.set[1][1].k = "geophysics"

\* C5: for a valid definition and a valid filter, the output holds the
\* sections of exactly the groups named in the filter, each once, in the
\* definition's order, with that group's entries and no other declaration.
C5_FilterSelectsExactly ==
    (Succeeded /\ ValidDefinition(db) /\ groups.given) =>
        /\ ParseSections(file.content, lang)
              = AsSections(SelectSeq(DefGroups(db),
                                     LAMBDA g : InSeq(g.k, groups.names)))
        /\ CountDeclLines(file.content, lang)
              = SumDecls(ParseSections(file.content, lang), 1)

C5_Witness ==
    /\ Succeeded
    /\ ValidDefinition(db)
    /\ groups.given
    /\ groups.names = << "geophysics" >>
    /\ Len(db.set) >= 2
    /\ db.set[1][1].k = "mathematics"

\* C6: a successful call leaves the same content as the previous successful
\* call with the same arguments, whatever the file held before either call.
C6_RerunSameContent ==
    (Succeeded /\ prev.valid) => file.content = prev.content

C6_Witness ==
    /\ Succeeded
    /\ prev.valid
    /\ ncalls = 2
    /\ Len(groups_in_file) >= 1
    /\ fileBefore.content # << >>

\* C7 as stated: a call with an unknown language on a loaded definition
\* always ends with ConfigurationError, whatever the group filter, and emits
\* nothing.
C7_UnknownLangAlwaysConfigError ==
    (pc = "done" /\ lang \notin KnownLangs /\ db.hasTop /\ SingleKeyed(db)) =>
        /\ err = "ConfigurationError"
        /\ ofileOpened => file.content = << >>

\* C7 amended: a call with an unknown language never succeeds and never
\* emits any text; it ends with ConfigurationError whenever the definition
\* passes the load and the filter is absent or valid (otherwise the earlier
\* load or group-selection error ends it).
C7_UnknownLangNeverSucceeds ==
    lang \notin KnownLangs =>
        /\ ~Succeeded
        /\ ofileOpened => file.content = << >>
        /\ ~ofileOpened => file = fileBefore
        /\ (pc = "done" /\ Loads(db) /\ FilterValid) => err = "ConfigurationError"
        /\ (pc = "done" /\ ~(Loads(db) /\ FilterValid)) =>
               err \in {"KeyError", "MalformedDatabase", "InvalidGroupSelection"}

C7_Witness ==
    /\ pc = "done"
    /\ lang \notin KnownLangs
    /\ err = "ConfigurationError"
    /\ groups.given
    /\ groups.names = << >>
    /\ db.set = << >>

\* C8: at most one of the two file handles is open at a time, the
\* definition is closed before the output is opened, and both are closed
\* whenever generate_file is not running, on success and on every error.
C8_HandlesReleased ==
    /\ ~(fd /\ ofile)
    /\ pc \in {"idle", "done"} => (~fd /\ ~ofile)
    /\ fd => pc = "read_db"
    /\ ofile => pc \in {"header", "group", "entry"}
    /\ ofileOpened => ~fd

C8_Witness ==
    /\ pc = "done"
    /\ err = "KeyError"
    /\ ofileOpened
    /\ file.content # << >>

\* C9: the file of a successful call is the language's opening block, then
\* for each selected group its header line directly followed by one
\* declaration line per entry in the entries' order, then the closing block;
\* nothing else but the blank separator lines, and as many declaration lines
\* as the selected groups have entries.
C9_FileShape ==
    Succeeded =>
        LET c == file.content
            h == HeaderText(lang)
            f == FooterText(lang)
            mid == SubSeq(c, Len(h) + 1, Len(c) - Len(f))
            secs == ParseSections(mid, lang)
            want == AsSections(SelectSeq(groups_in_file, LAMBDA g : InFilter(g.k)))
        IN /\ Len(c) >= Len(h) + Len(f)
           /\ SubSeq(c, 1, Len(h)) = h
           /\ SubSeq(c, Len(c) - Len(f) + 1, Len(c)) = f
           /\ secs = want
           /\ CountDeclLines(mid, lang) = SumDecls(want, 1)
           /\ Len(SplitLines(mid)) = 2 * Len(want) + SumDecls(want, 1) + 1

C9_Witness ==
    /\ Succeeded
    /\ lang = "cxx"
    /\ Len(groups_in_file) = 2
    /\ Len(groups_in_file[1].v.entries) = 2
    /\ ~groups.given

\* C10: with a well-formed definition and an absent or valid filter, a call
\* with an unknown language fails after the output file was opened: the file
\* exists and is empty, whatever it held before.
C10_UnknownLangTruncates ==
    (pc = "done" /\ lang \notin KnownLangs /\ db.hasTop /\ SingleKeyed(db)
        /\ FilterValid) =>
        /\ err = "ConfigurationError"
        /\ file.exists
        /\ file.content = << >>

C10_Witness ==
    /\ pc = "done"
    /\ lang \notin KnownLangs
    /\ err = "ConfigurationError"
    /\ fileBefore.content # << >>
    /\ file.content = << >>
    /\ Len(db.set) >= 1

====
